---------------------------- MODULE Spec2Model ----------------------------
(***************************************************************************)
(* A model of log_odds.py: the catfish-odds logger.  One run of main()    *)
(* geocodes, fetches four readings, loads the JSON log, computes the       *)
(* barometric stability and the score, prunes the log to the retention     *)
(* window, merges or appends the new entry and saves the log through a     *)
(* temporary file.                                                         *)
(*                                                                         *)
(* Time is counted in ticks since the epoch, TicksPerSecond ticks to the   *)
(* second, so that a clock reading has a sub-second part as datetime.now() *)
(* has microseconds.  A datetime is its tick count; an ISO-8601 string is  *)
(* the record of its fields.  Pressures, temperatures and gauge heights    *)
(* are whole numbers of their unit (mb, F, ft).  The stability fraction D  *)
(* is held as its numerator over STABILITY_DAYS, the score as tenths of a  *)
(* percent.                                                                *)
(***************************************************************************)
EXTENDS Integers, Sequences, FiniteSets

VARIABLES
    clock,      \* the wall clock (UTC), in ticks
    fs,         \* the file system: path -> content
    pc,         \* position of the process in main()
    runs,       \* invocations of main() so far
    p_now, p_prev, T_now, L_now,   \* the fetched readings
    data,       \* main's local `data`
    today,      \* the date read inside compute_barometric_stability_local
    D,          \* stability numerator (D = D / STABILITY_DAYS)
    pct,        \* the score, in tenths of a percent
    now,        \* main's local `now`: the entry's timestamp string
    entry,      \* main's local `entry`
    cutoff,     \* main's local `cutoff`, in ticks
    stdout,     \* confirmation lines printed by the current run
    \* history variables (not program state):
    file0,      \* content of the log path when the current run started
    loaded,     \* what load_existing_data returned to the current run
    pruned,     \* `data` after line 157, before the merge
    did,        \* steps the current run has executed
    failedAt,   \* where the current run failed ("none" if it has not)
    clean,      \* the very first log was absent or the empty array
    succ,       \* the log has been replaced by some run since Init
    lastEntry   \* the entry of the latest run whose save replaced the log

vars == << clock, fs, pc, runs, p_now, p_prev, T_now, L_now, data, today, D,
           pct, now, entry, cutoff, stdout, file0, loaded, pruned, did,
           failedAt, clean, succ, lastEntry >>

----------------------------------------------------------------------------
(* Bounds of the model *)

MaxRuns == 2
TicksPerSecond == 2
MaxHist == 4

(* Calendar and configuration *)

SecondsPerHour == 3600
HoursPerDay == 24
KEEP_HOURS == 30 * 24
STABILITY_THRESHOLD == 2
STABILITY_DAYS == 4
LOG_FILE_PATH == "./data/odds_log.json"

HourTicks == SecondsPerHour * TicksPerSecond
DayTicks == HoursPerDay * HourTicks
KeepTicks == KEEP_HOURS * HourTicks

----------------------------------------------------------------------------
(* datetime *)

Abs(x) == IF x < 0 THEN -x ELSE x
Max(a, b) == IF a >= b THEN a ELSE b

\* dt.replace(microsecond=0)
ReplaceMicrosecond0(t) == t - (t % TicksPerSecond)

\* dt.hour
HourOf(t) == (t \div HourTicks) % HoursPerDay

\* dt.date(), as days since the epoch
DateOf(t) == t \div DayTicks

\* dt.isoformat().replace("+00:00","Z") of a whole-second UTC datetime
IsoFormatZ(t) ==
    LET s == t \div TicksPerSecond
    IN  [date |-> s \div (SecondsPerHour * HoursPerDay),
         hour |-> (s \div SecondsPerHour) % HoursPerDay,
         sec  |-> s % SecondsPerHour]

\* a string datetime.fromisoformat rejects
Garbage == [date |-> -1, hour |-> 0, sec |-> 0]

Parsable(s) == s.date >= 0

\* datetime.fromisoformat(s.replace("Z","+00:00")), for a parsable s
FromIsoFormat(s) ==
    ((s.date * HoursPerDay + s.hour) * SecondsPerHour + s.sec) * TicksPerSecond


----------------------------------------------------------------------------
(* compute_barometric_stability_local *)

\* the loop of lines 87-95: pressures_by_date, a dict date -> list of p_now
RECURSIVE PressuresByDate(_, _)
PressuresByDate(entries, acc) ==
    IF entries = << >> THEN acc
    ELSE LET e == Head(entries)
         IN  IF ~Parsable(e.time)
             THEN PressuresByDate(Tail(entries), acc)
             ELSE LET d == DateOf(FromIsoFormat(e.time))
                      old == IF d \in DOMAIN acc THEN acc[d] ELSE << >>
                  IN  PressuresByDate(Tail(entries),
                         [k \in DOMAIN acc \cup {d} |->
                             IF k = d THEN Append(old, e.p_now) ELSE acc[k]])

RECURSIVE SumSeq(_)
SumSeq(s) == IF s = << >> THEN 0 ELSE Head(s) + SumSeq(Tail(s))

\* a daily mean is kept as the fraction sum/n; None has n = 0
None == [sum |-> 0, n |-> 0]
Mean(vals) == [sum |-> SumSeq(vals), n |-> Len(vals)]

\* [(now - timedelta(days=i)) for i in range(1, STABILITY_DAYS+1)]
PastDates(nowDate) == [i \in 1..STABILITY_DAYS |-> nowDate - i]

Reversed(s) == [i \in 1..Len(s) |-> s[Len(s) + 1 - i]]

\* lines 98-101
Avgs(byDate, nowDate) ==
    LET ds == Reversed(PastDates(nowDate))
    IN  [i \in 1..Len(ds) |->
            IF ds[i] \in DOMAIN byDate THEN Mean(byDate[ds[i]]) ELSE None]

\* mutant: a difference of exactly the threshold is not stable
WithinThresholdStrict(a, b) ==
    Abs(a.sum * b.n - b.sum * a.n) < STABILITY_THRESHOLD * a.n * b.n

\* abs(a - b) <= STABILITY_THRESHOLD on the fractions a and b
WithinThreshold(a, b) ==
    Abs(a.sum * b.n - b.sum * a.n) <= STABILITY_THRESHOLD * a.n * b.n

\* the loop of lines 103-105; i is the 1-based index of avgs[i] in Python's
\* `for i in range(1, len(avgs))`
RECURSIVE CountStable(_, _, _)
CountStable(avgs, i, stable) ==
    IF i > Len(avgs) THEN stable
    ELSE CountStable(avgs, i + 1,
            IF avgs[i] # None /\ avgs[i-1] # None /\ WithinThreshold(avgs[i], avgs[i-1])
            THEN stable + 1 ELSE stable)

\* the numerator of the returned stable/STABILITY_DAYS
compute_barometric_stability_local(entries, nowDate) ==
    IF entries = << >> THEN 0
    ELSE CountStable(Avgs(PressuresByDate(entries, << >>), nowDate), 2, 0)

----------------------------------------------------------------------------
(* compute_score *)

\* round(n/d, 0) for d > 0: to the nearest integer, ties to the even one
RoundHalfEven(n, d) ==
    LET q == n \div d
        r == n % d
    IN  IF 2 * r < d THEN q
        ELSE IF 2 * r > d THEN q + 1
        ELSE IF q % 2 = 0 THEN q ELSE q + 1

\* mutant: the sub-score is not clamped at 0
SubScoreNoClamp(x, ideal, scale) == scale - Abs(x - ideal)

\* max(0, 1 - abs(x - ideal)/scale), as the numerator over `scale`
SubScore(x, ideal, scale) == Max(0, scale - Abs(x - ideal))

\* round(S*100, 1) in tenths of a percent, where
\* S = 0.30*D + 0.25*P + 0.20*L + 0.25*T; d is D's numerator over STABILITY_DAYS.
\* The four terms are brought over the common denominator 30*STABILITY_DAYS.
compute_score(pn, pp, T, L, d) ==
    LET P  == SubScore(pn, pp, 10)
        Lv == SubScore(L, 7, 5)
        Tv == SubScore(T, 75, 15)
        S100 == 30 * d * 30 + STABILITY_DAYS * (25 * P * 3 + 20 * Lv * 6 + 25 * Tv * 2)
    IN  RoundHalfEven(10 * S100, 30 * STABILITY_DAYS)

----------------------------------------------------------------------------
(* The log file *)

Absent     == [kind |-> "absent",     recs |-> << >>]   \* no such file
Unreadable == [kind |-> "unreadable", recs |-> << >>]   \* open() raises
Invalid    == [kind |-> "invalid",    recs |-> << >>]   \* not JSON
Object(r)  == [kind |-> "object",     recs |-> << r >>] \* JSON, not an array
Array(rs)  == [kind |-> "array",      recs |-> rs]      \* a JSON array
\* a file opened for writing whose dump has not completed: any proper prefix
\* of the JSON text, the empty one included; no such text is valid JSON
Truncated  == [kind |-> "truncated",  recs |-> << >>]

\* mutant: the dump is written straight to the log path
TmpPathInPlace(path) == path

\* path + '.tmp'
TmpPath(path) == path \o ".tmp"

Paths == {LOG_FILE_PATH, TmpPath(LOG_FILE_PATH)}

\* mutant: no isinstance check, any JSON value is taken for the list
load_without_isinstance(c) ==
    IF c.kind \in {"array", "object"} THEN c.recs ELSE << >>

\* lines 115-123, on the content c of the path
load_existing_data(c) ==
    IF c.kind = "absent" THEN << >>                       \* os.path.exists
    ELSE IF c.kind = "unreadable" THEN << >>              \* open raises
    ELSE IF c.kind \in {"invalid", "truncated"} THEN << >> \* json.load raises
    ELSE IF c.kind = "array" THEN c.recs                  \* isinstance(data,list)
    ELSE << >>

----------------------------------------------------------------------------
(* Prune and merge (lines 156-161) *)

\* the comprehension of line 157 raises on the first unparsable "time"
PruneRaises(d) == \E i \in 1..Len(d) : ~Parsable(d[i].time)

\* mutant: the record exactly at the cutoff is dropped
KeepsStrict(e, cut) == FromIsoFormat(e.time) > cut

Keeps(e, cut) == FromIsoFormat(e.time) >= cut

Prune(d, cut) == SelectSeq(d, LAMBDA e : Keeps(e, cut))

\* mutant: a new entry is put in front of the log
MergePrepend(d, e, hourNow) ==
    IF d # << >> /\ HourOf(FromIsoFormat(d[Len(d)].time)) = hourNow
    THEN [d EXCEPT ![Len(d)] = e]
    ELSE << e >> \o d

\* lines 158-161; hourNow is datetime.now(utc).hour read at line 158
MergeOrAppend(d, e, hourNow) ==
    IF d # << >> /\ HourOf(FromIsoFormat(d[Len(d)].time)) = hourNow
    THEN [d EXCEPT ![Len(d)] = e]
    ELSE Append(d, e)

----------------------------------------------------------------------------
(* Inputs of the model *)

\* the clock at Init: one second before 06:00 on day 40
StartClock == 40 * DayTicks + 6 * HourTicks - TicksPerSecond

\* how far the clock may move between two invocations of main()
Gaps == {0, HourTicks, DayTicks, KeepTicks}

\* how far the clock may move between two statements of one run
Lags == {0, 1}

\* the readings a run may fetch: << p_now, p_prev, T_now, L_now >>
Readings == { << 1000, 1000, 75, 7 >>, << 1003, 1009, 64, 9 >> }

Observation(t, p) ==
    [time |-> t, p_now |-> p, T_now |-> 75, L_now |-> 7, score |-> 700]

NoEntry == Observation(Garbage, 0)

\* what the log path may hold before the first run
InitialLogs ==
    { Absent, Unreadable, Invalid,
      Object(Observation(IsoFormatZ(StartClock - DayTicks), 1000)),
      Array(<< >>),
      Array(<< Observation(IsoFormatZ(StartClock - KeepTicks - TicksPerSecond), 1003),
               Observation(IsoFormatZ(StartClock - KeepTicks), 1000),
               Observation(IsoFormatZ(StartClock - 2 * DayTicks), 1000),
               Observation(IsoFormatZ(StartClock - DayTicks), 1002) >>),
      Array(<< Observation(IsoFormatZ(StartClock - DayTicks), 1000),
               Observation(Garbage, 1000) >>) }

----------------------------------------------------------------------------
(* main() *)

\* main's locals before its first statement
Locals0 ==
    /\ p_now = 0 /\ p_prev = 0 /\ T_now = 0 /\ L_now = 0
    /\ data = << >> /\ today = 0 /\ D = 0 /\ pct = 0
    /\ now = Garbage /\ entry = NoEntry /\ cutoff = 0
    /\ stdout = 0 /\ loaded = << >> /\ pruned = << >>
    /\ did = {} /\ failedAt = "none"

\* the same values, for the next state
ResetLocals ==
    /\ p_now' = 0 /\ p_prev' = 0 /\ T_now' = 0 /\ L_now' = 0
    /\ data' = << >> /\ today' = 0 /\ D' = 0 /\ pct' = 0
    /\ now' = Garbage /\ entry' = NoEntry /\ cutoff' = 0
    /\ stdout' = 0 /\ loaded' = << >> /\ pruned' = << >>
    /\ did' = {} /\ failedAt' = "none"

Init ==
    /\ clock = StartClock
    /\ \E c \in InitialLogs :
          /\ fs = [p \in Paths |-> IF p = LOG_FILE_PATH THEN c ELSE Absent]
          /\ file0 = c
          /\ clean = (c = Absent \/ c = Array(<< >>))
    /\ pc = "idle"
    /\ runs = 0
    /\ succ = FALSE
    /\ lastEntry = NoEntry
    /\ Locals0

\* lines 165-166: the process is started; the previous run's locals are gone
Start ==
    /\ pc \in {"idle", "done", "failed"}
    /\ runs < MaxRuns
    /\ runs' = runs + 1
    /\ \E g \in Gaps : clock' = clock + g
    /\ pc' = "start"
    /\ file0' = fs[LOG_FILE_PATH]
    /\ ResetLocals
    /\ UNCHANGED << fs, clean, succ, lastEntry >>

Fail(where) ==
    /\ pc' = "failed"
    /\ failedAt' = where

\* lines 134-135
GeocodeOk ==
    /\ pc = "start"
    /\ pc' = "geocoded"
    /\ UNCHANGED << clock, fs, runs, p_now, p_prev, T_now, L_now, data, today, D,
                    pct, now, entry, cutoff, stdout, file0, loaded, pruned, did,
                    failedAt, clean, succ, lastEntry >>

\* lines 136-138
GeocodeFail ==
    /\ pc = "start"
    /\ Fail("geocode")
    /\ UNCHANGED << clock, fs, runs, p_now, p_prev, T_now, L_now, data, today, D,
                    pct, now, entry, cutoff, stdout, file0, loaded, pruned, did,
                    clean, succ, lastEntry >>

\* lines 141-145
FetchOk ==
    /\ pc = "geocoded"
    /\ \E r \in Readings :
          /\ p_now' = r[1] /\ p_prev' = r[2] /\ T_now' = r[3] /\ L_now' = r[4]
    /\ pc' = "fetched"
    /\ UNCHANGED << clock, fs, runs, data, today, D,
                    pct, now, entry, cutoff, stdout, file0, loaded, pruned, did,
                    failedAt, clean, succ, lastEntry >>

\* mutant: the handler of lines 146-148 without its return
FetchFailNoReturn ==
    /\ pc = "geocoded"
    /\ failedAt' = "fetch"
    /\ pc' = "fetched"
    /\ UNCHANGED << clock, fs, runs, p_now, p_prev, T_now, L_now, data, today, D,
                    pct, now, entry, cutoff, stdout, file0, loaded, pruned, did,
                    clean, succ, lastEntry >>

\* lines 146-148
FetchFail ==
    /\ pc = "geocoded"
    /\ Fail("fetch")
    /\ UNCHANGED << clock, fs, runs, p_now, p_prev, T_now, L_now, data, today, D,
                    pct, now, entry, cutoff, stdout, file0, loaded, pruned, did,
                    clean, succ, lastEntry >>

\* line 151
Load ==
    /\ pc = "fetched"
    /\ data' = load_existing_data(fs[LOG_FILE_PATH])
    /\ loaded' = data'
    /\ did' = did \cup {"load"}
    /\ pc' = "loaded"
    /\ UNCHANGED << clock, fs, runs, p_now, p_prev, T_now, L_now, today, D,
                    pct, now, entry, cutoff, stdout, file0, pruned,
                    failedAt, clean, succ, lastEntry >>

\* line 152; line 96 reads the clock for its date
Stability ==
    /\ pc = "loaded"
    /\ today' = DateOf(clock)
    /\ D' = compute_barometric_stability_local(data, today')
    /\ did' = did \cup {"stability"}
    /\ pc' = "estimated"
    /\ UNCHANGED << clock, fs, runs, p_now, p_prev, T_now, L_now, data,
                    pct, now, entry, cutoff, stdout, file0, loaded, pruned,
                    failedAt, clean, succ, lastEntry >>

\* line 153
Score ==
    /\ pc = "estimated"
    /\ pct' = compute_score(p_now, p_prev, T_now, L_now, D)
    /\ did' = did \cup {"score"}
    /\ pc' = "scored"
    /\ UNCHANGED << clock, fs, runs, p_now, p_prev, T_now, L_now, data, today, D,
                    now, entry, cutoff, stdout, file0, loaded, pruned,
                    failedAt, clean, succ, lastEntry >>

\* lines 154-155; the clock is read at line 154
Stamp ==
    /\ pc = "scored"
    /\ \E lag \in Lags : clock' = clock + lag
    /\ now' = IsoFormatZ(ReplaceMicrosecond0(clock'))
    /\ entry' = [time |-> now', p_now |-> p_now, T_now |-> T_now,
                 L_now |-> L_now, score |-> pct]
    /\ pc' = "stamped"
    /\ UNCHANGED << fs, runs, p_now, p_prev, T_now, L_now, data, today, D,
                    pct, cutoff, stdout, file0, loaded, pruned, did,
                    failedAt, clean, succ, lastEntry >>

\* line 156; the clock is read again
Cutoff ==
    /\ pc = "stamped"
    /\ \E lag \in Lags : clock' = clock + lag
    /\ cutoff' = clock' - KeepTicks
    /\ pc' = "cut"
    /\ UNCHANGED << fs, runs, p_now, p_prev, T_now, L_now, data, today, D,
                    pct, now, entry, stdout, file0, loaded, pruned, did,
                    failedAt, clean, succ, lastEntry >>

\* line 157
PruneOk ==
    /\ pc = "cut"
    /\ ~PruneRaises(data)
    /\ data' = Prune(data, cutoff)
    /\ pruned' = data'
    /\ did' = did \cup {"prune"}
    /\ pc' = "pruned"
    /\ UNCHANGED << clock, fs, runs, p_now, p_prev, T_now, L_now, today, D,
                    pct, now, entry, cutoff, stdout, file0, loaded,
                    failedAt, clean, succ, lastEntry >>

\* line 157: fromisoformat raises ValueError, which nothing catches
PruneFail ==
    /\ pc = "cut"
    /\ PruneRaises(data)
    /\ Fail("prune")
    /\ UNCHANGED << clock, fs, runs, p_now, p_prev, T_now, L_now, data, today, D,
                    pct, now, entry, cutoff, stdout, file0, loaded, pruned, did,
                    clean, succ, lastEntry >>

\* lines 158-161; the clock is read a fourth time at line 158
Merge ==
    /\ pc = "pruned"
    /\ \E lag \in Lags : clock' = clock + lag
    /\ data' = MergeOrAppend(data, entry, HourOf(clock'))
    /\ did' = did \cup {"merge"}
    /\ pc' = "merged"
    /\ UNCHANGED << fs, runs, p_now, p_prev, T_now, L_now, today, D,
                    pct, now, entry, cutoff, stdout, file0, loaded, pruned,
                    failedAt, clean, succ, lastEntry >>

----------------------------------------------------------------------------
(* save_data(LOG_FILE_PATH, data), line 162, statement by statement *)

\* line 126
MakedirsOk ==
    /\ pc = "merged"
    /\ did' = did \cup {"save"}
    /\ pc' = "dir"
    /\ UNCHANGED << clock, fs, runs, p_now, p_prev, T_now, L_now, data, today, D,
                    pct, now, entry, cutoff, stdout, file0, loaded, pruned,
                    failedAt, clean, succ, lastEntry >>

\* line 126 raises (no permission, a file in the way, an empty dirname)
MakedirsFail ==
    /\ pc = "merged"
    /\ did' = did \cup {"save"}
    /\ Fail("save")
    /\ UNCHANGED << clock, fs, runs, p_now, p_prev, T_now, L_now, data, today, D,
                    pct, now, entry, cutoff, stdout, file0, loaded, pruned,
                    clean, succ, lastEntry >>

\* line 128: open(tmp,'w') creates the file or cuts it to nothing
OpenTmpOk ==
    /\ pc = "dir"
    /\ fs' = [fs EXCEPT ![TmpPath(LOG_FILE_PATH)] = Truncated]
    /\ pc' = "opened"
    /\ UNCHANGED << clock, runs, p_now, p_prev, T_now, L_now, data, today, D,
                    pct, now, entry, cutoff, stdout, file0, loaded, pruned, did,
                    failedAt, clean, succ, lastEntry >>

\* line 128 raises
OpenTmpFail ==
    /\ pc = "dir"
    /\ Fail("save")
    /\ UNCHANGED << clock, fs, runs, p_now, p_prev, T_now, L_now, data, today, D,
                    pct, now, entry, cutoff, stdout, file0, loaded, pruned, did,
                    clean, succ, lastEntry >>

\* line 129 and the close of the with block
DumpOk ==
    /\ pc = "opened"
    /\ fs' = [fs EXCEPT ![TmpPath(LOG_FILE_PATH)] = Array(data)]
    /\ pc' = "dumped"
    /\ UNCHANGED << clock, runs, p_now, p_prev, T_now, L_now, data, today, D,
                    pct, now, entry, cutoff, stdout, file0, loaded, pruned, did,
                    failedAt, clean, succ, lastEntry >>

\* line 129 raises part way (disk full): a prefix of the text is in the file
DumpFail ==
    /\ pc = "opened"
    /\ fs' = [fs EXCEPT ![TmpPath(LOG_FILE_PATH)] = Truncated]
    /\ Fail("save")
    /\ UNCHANGED << clock, runs, p_now, p_prev, T_now, L_now, data, today, D,
                    pct, now, entry, cutoff, stdout, file0, loaded, pruned, did,
                    clean, succ, lastEntry >>

\* line 130: os.replace(tmp, path) renames in one step
ReplaceOk ==
    /\ pc = "dumped"
    /\ LET tmp == TmpPath(LOG_FILE_PATH)
       IN  fs' = [q \in Paths |->
                    IF q = LOG_FILE_PATH THEN fs[tmp]
                    ELSE IF q = tmp THEN Absent ELSE fs[q]]
    /\ succ' = TRUE
    /\ lastEntry' = entry
    /\ pc' = "saved"
    /\ UNCHANGED << clock, runs, p_now, p_prev, T_now, L_now, data, today, D,
                    pct, now, entry, cutoff, stdout, file0, loaded, pruned, did,
                    failedAt, clean >>

\* line 130 raises: nothing is renamed
ReplaceFail ==
    /\ pc = "dumped"
    /\ Fail("save")
    /\ UNCHANGED << clock, fs, runs, p_now, p_prev, T_now, L_now, data, today, D,
                    pct, now, entry, cutoff, stdout, file0, loaded, pruned, did,
                    clean, succ, lastEntry >>

\* line 163: the confirmation line
Confirm ==
    /\ pc = "saved"
    /\ stdout' = stdout + 1
    /\ pc' = "done"
    /\ UNCHANGED << clock, fs, runs, p_now, p_prev, T_now, L_now, data, today, D,
                    pct, now, entry, cutoff, file0, loaded, pruned, did,
                    failedAt, clean, succ, lastEntry >>

Next ==
    \/ Start
    \/ GeocodeOk \/ GeocodeFail
    \/ FetchOk \/ FetchFail
    \/ Load \/ Stability \/ Score \/ Stamp \/ Cutoff
    \/ PruneOk \/ PruneFail
    \/ Merge
    \/ MakedirsOk \/ MakedirsFail
    \/ OpenTmpOk \/ OpenTmpFail
    \/ DumpOk \/ DumpFail
    \/ ReplaceOk \/ ReplaceFail
    \/ Confirm

Spec == Init /\ [][Next]_vars

----------------------------------------------------------------------------
(* compute_score on its own: every reading in a range around its ideal and  *)
(* every stability fraction 0/4 .. 4/4                                      *)

ScoreP  == 989..1011
ScorePP == {1000}
ScoreT  == 58..92
ScoreL  == 1..13

InitScore ==
    /\ clock = StartClock
    /\ fs = [p \in Paths |-> Absent]
    /\ file0 = Absent /\ clean = TRUE
    /\ runs = 1 /\ succ = FALSE /\ lastEntry = NoEntry
    /\ p_now \in ScoreP /\ p_prev \in ScorePP /\ T_now \in ScoreT /\ L_now \in ScoreL
    /\ D \in 0..STABILITY_DAYS
    /\ data = << >> /\ today = DateOf(StartClock) /\ pct = 0
    /\ now = Garbage /\ entry = NoEntry /\ cutoff = 0
    /\ stdout = 0 /\ loaded = << >> /\ pruned = << >>
    /\ did = {"load", "stability"} /\ failedAt = "none"
    /\ pc = "estimated"

SpecScore == InitScore /\ [][Score]_vars

----------------------------------------------------------------------------
(* compute_barometric_stability_local on its own: every time-ordered log of *)
(* at most MaxHist records dated today or one of the five days before it,   *)
(* with two pressures, an unparsable record allowed anywhere                *)

HistPressures == {1000, 1003}

HistRecords ==
    { Observation(IsoFormatZ(StartClock - k * DayTicks), p) :
        k \in 0..(STABILITY_DAYS + 1), p \in HistPressures }
    \cup { Observation(Garbage, 1000) }

\* r may follow the log h in time order
MayFollow(h, r) ==
    \A i \in 1..Len(h) :
        (Parsable(h[i].time) /\ Parsable(r.time))
            => FromIsoFormat(h[i].time) <= FromIsoFormat(r.time)

RECURSIVE Histories(_)
Histories(n) ==
    IF n = 0 THEN { << >> }
    ELSE LET shorter == Histories(n - 1)
             longest == { x \in shorter : Len(x) = n - 1 }
         IN  shorter \cup
             { Append(y[1], y[2]) :
                 y \in { z \in longest \X HistRecords : MayFollow(z[1], z[2]) } }

InitStability ==
    /\ clock = StartClock
    /\ \E h \in Histories(MaxHist) :
          /\ fs = [p \in Paths |-> IF p = LOG_FILE_PATH THEN Array(h) ELSE Absent]
          /\ file0 = Array(h)
          /\ data = h
          /\ loaded = h
          /\ clean = (h = << >>)
    /\ runs = 1 /\ succ = FALSE /\ lastEntry = NoEntry
    /\ p_now = 1000 /\ p_prev = 1000 /\ T_now = 75 /\ L_now = 7
    /\ today = 0 /\ D = 0 /\ pct = 0
    /\ now = Garbage /\ entry = NoEntry /\ cutoff = 0
    /\ stdout = 0 /\ pruned = << >>
    /\ did = {"load"} /\ failedAt = "none"
    /\ pc = "loaded"

SpecStability == InitStability /\ [][Stability]_vars

----------------------------------------------------------------------------
(* Properties *)

LogFile == fs[LOG_FILE_PATH]

\* two timestamp strings of the same UTC date and hour-of-day
SameDateAndHour(s, t) == s.date = t.date /\ s.hour = t.hour

\* C1: in the merge step, for a non-empty pruned history, the last record is
\* replaced by the entry if and only if its timestamp has the same UTC date
\* and the same hour-of-day as the entry's; otherwise the entry is appended
\* and the history grows by one record.
C1_ReplaceIffSameDateAndHour ==
    (pc = "merged" /\ pruned # << >>) =>
        LET n == Len(pruned)
        IN  IF SameDateAndHour(pruned[n].time, entry.time)
            THEN data = [pruned EXCEPT ![n] = entry]
            ELSE data = Append(pruned, entry) /\ Len(data) = n + 1

\* C2: starting from an absent or empty log, the persisted log never holds
\* two records whose timestamps fall in the same UTC date and hour.
C2_OneRecordPerDateAndHour ==
    (clean /\ LogFile.kind = "array") =>
        \A i, j \in 1..Len(LogFile.recs) :
            i < j => ~SameDateAndHour(LogFile.recs[i].time, LogFile.recs[j].time)

\* the indices of the records of h that are not older than cut
NotOlder(h, cut) == { i \in 1..Len(h) : FromIsoFormat(h[i].time) >= cut }

\* C3: the cutoff is the clock reading minus 720 hours; the prune step keeps
\* exactly the loaded records with time >= cutoff, in their original order;
\* after a write every persisted record has time >= cutoff.
C3_PruneKeepsWindow ==
    /\ pc = "cut" => cutoff = clock - 720 * SecondsPerHour * TicksPerSecond
    /\ "prune" \in did =>
          LET keep == NotOlder(loaded, cutoff)
          IN  /\ Len(pruned) = Cardinality(keep)
              /\ \A i \in keep :
                    pruned[Cardinality({ j \in keep : j <= i })] = loaded[i]
    /\ pc \in {"saved", "done"} =>
          /\ LogFile.kind = "array"
          /\ \A i \in 1..Len(LogFile.recs) :
                FromIsoFormat(LogFile.recs[i].time) >= cutoff

\* C3's case: a record exactly at the cutoff was kept and an older one removed
C3_Witness ==
    /\ pc = "saved"
    /\ \E i \in 1..Len(loaded) : FromIsoFormat(loaded[i].time) = cutoff
    /\ \E i \in 1..Len(loaded) : FromIsoFormat(loaded[i].time) < cutoff
    /\ Len(pruned) >= 2
    /\ Len(pruned) < Len(loaded)

\* C4: at every point of save_data, a failure at any step included, the log
\* path holds the complete previous content or the complete new sequence and
\* never a partial one; when save fails, the path holds the previous content
\* and load returns what it returned before.
C4_SaveIsAtomic ==
    /\ LogFile.kind # "truncated"
    /\ "save" \in did => (LogFile = file0 \/ LogFile = Array(data))
    /\ pc \in {"dir", "opened", "dumped"} => LogFile = file0
    /\ failedAt = "save" =>
          /\ LogFile = file0
          /\ load_existing_data(LogFile) = loaded

\* C4's case: the dump failed part way over a non-empty previous log
C4_Witness ==
    /\ failedAt = "save"
    /\ fs[TmpPath(LOG_FILE_PATH)] = Truncated
    /\ file0.kind = "array" /\ file0.recs # << >>
    /\ Array(data) # file0

\* C5: compute_score returns a value in [0.0, 100.0], the value
\* 100*(0.30*D + 0.25*max(0,1-|p_now-p_prev|/10) + 0.20*max(0,1-|L_now-7|/5)
\* + 0.25*max(0,1-|T_now-75|/15)) rounded to one decimal.  Both sides are
\* multiplied by 600: pct is in tenths, D in quarters.
C5_ScoreInRange ==
    pc = "scored" =>
        LET P == IF Abs(p_now - p_prev) >= 10 THEN 0 ELSE 10 - Abs(p_now - p_prev)
            L == IF Abs(L_now - 7) >= 5 THEN 0 ELSE 5 - Abs(L_now - 7)
            T == IF Abs(T_now - 75) >= 15 THEN 0 ELSE 15 - Abs(T_now - 75)
            exact600 == 10 * (30 * 15 * D + 25 * 6 * P + 20 * 12 * L + 25 * 4 * T)
        IN  /\ pct \in 0..1000
            /\ 2 * Abs(60 * pct - exact600) <= 60

\* C5's case: a pressure change beyond the scale is clamped, the score is 0.0
C5_Witness ==
    /\ pc = "scored"
    /\ Abs(p_now - p_prev) > 10 /\ Abs(T_now - 75) > 15 /\ Abs(L_now - 7) > 5
    /\ D = 0
    /\ pct = 0

\* the indices of the parsable records of h dated d
OnDate(h, d) == { i \in 1..Len(h) : Parsable(h[i].time) /\ h[i].time.date = d }

RECURSIVE SumPressure(_, _)
SumPressure(h, I) ==
    IF I = {} THEN 0
    ELSE LET i == CHOOSE x \in I : TRUE
         IN  h[i].p_now + SumPressure(h, I \ {i})

\* dates d and d+1 both have a record and their daily means differ by <= 2.0
StablePair(h, d) ==
    LET A == OnDate(h, d)
        B == OnDate(h, d + 1)
    IN  /\ A # {} /\ B # {}
        /\ Abs(SumPressure(h, A) * Cardinality(B) - SumPressure(h, B) * Cardinality(A))
              <= 2 * Cardinality(A) * Cardinality(B)

InWindow(e, day) == Parsable(e.time) /\ e.time.date \in (day - 4)..(day - 1)

\* C6: the stability is the number of pairs of consecutive dates, among the
\* 4 dates ending yesterday, with both dates present and daily means within
\* 2.0, divided by 4; records outside the window do not change it; an empty
\* history gives 0.0 and four days of identical mean give 0.75.
C6_StabilityCountsStablePairs ==
    pc = "estimated" =>
        /\ STABILITY_DAYS = 4
        /\ D = Cardinality({ d \in (today - 4)..(today - 2) : StablePair(data, d) })
        /\ D = compute_barometric_stability_local(
                   SelectSeq(data, LAMBDA e : InWindow(e, today)), today)
        /\ data = << >> => D = 0
        /\ (\A d \in (today - 4)..(today - 1) :
               /\ OnDate(data, d) # {}
               /\ \A i \in OnDate(data, d) : data[i].p_now = 1003) => D = 3

\* C6's case: two stable pairs and one pair with an absent date
C6_Witness ==
    /\ pc = "estimated"
    /\ D = 2
    /\ \E d \in (today - 4)..(today - 1) : OnDate(data, d) = {}
    /\ \E i \in 1..Len(data) : ~Parsable(data[i].time)

\* C7: a historical record with an unparsable timestamp never aborts a run.
C7_UnparsableNeverAborts ==
    (\E i \in 1..Len(loaded) : ~Parsable(loaded[i].time)) =>
        failedAt \in {"none", "save"}

\* C8: a failed run leaves the log file as it was before the run and prints
\* no confirmation line; on a geocode or fetch failure the log is not loaded
\* and no score is computed.
C8_FailedRunLeavesLog ==
    /\ pc = "failed" => (LogFile = file0 /\ stdout = 0)
    /\ failedAt # "none" => stdout = 0
    /\ failedAt \in {"geocode", "fetch"} => did \cap {"load", "score"} = {}

\* C8's case: the replace failed after the new log was fully written
C8_Witness ==
    /\ pc = "failed" /\ failedAt = "save"
    /\ fs[TmpPath(LOG_FILE_PATH)] = Array(data)
    /\ "score" \in did

\* C9: load_existing_data returns the stored array, and the empty sequence
\* for an absent, unreadable, non-JSON or non-array file; a run from such a
\* log ends with a log holding exactly the new entry.
C9_LoadDegradesToEmpty ==
    /\ "load" \in did =>
          loaded = IF file0.kind = "array" THEN file0.recs ELSE << >>
    /\ (pc \in {"saved", "done"}
          /\ file0.kind \in {"absent", "unreadable", "invalid", "object"}) =>
          LogFile = Array(<< entry >>)

\* C9's case: a run over a log that is not JSON has completed
C9_Witness ==
    /\ pc = "done"
    /\ file0.kind = "invalid"
    /\ LogFile = Array(<< entry >>)

\* C10: starting from an absent or empty log, after a successful run the log
\* is non-empty, ordered non-decreasing by time, and ends with the latest
\* run's entry.
C10_OrderedEndsWithLatest ==
    (clean /\ succ) =>
        /\ LogFile.kind = "array"
        /\ LogFile.recs # << >>
        /\ \A i, j \in 1..Len(LogFile.recs) :
              i < j => FromIsoFormat(LogFile.recs[i].time)
                          <= FromIsoFormat(LogFile.recs[j].time)
        /\ LogFile.recs[Len(LogFile.recs)] = lastEntry

\* C10's case: a second run has appended to the first run's record
C10_Witness ==
    /\ clean /\ succ /\ pc = "done"
    /\ Len(LogFile.recs) >= 2
    /\ LogFile.recs[1].time # LogFile.recs[2].time

=============================================================================
